---- MODULE Spec2Model ----
(***************************************************************************)
(* Fancy Wordle (src/wordle.py): word-list resolution (ensure_wordlist),   *)
(* the guess scorer (Wordle.score) and the round state machine driven by   *)
(* key events (Wordle.handle_key, submit_guess, end_round, new_round).     *)
(*                                                                         *)
(* A Python str is modelled as the sequence of its Unicode code points, so *)
(* that len(), indexing, ==, sorted() and str.lower() are computed on the  *)
(* same data the program computes them on.                                 *)
(***************************************************************************)
EXTENDS Integers, Sequences, FiniteSets, TLC

VARIABLES
    pc,                 \* "start" | "raised" | "loaded" | "running" | "quit" | "scoring" | "scored"
    file,               \* wordlist.txt: [exists, readable, text]
    net,                \* what urlopen(WORDLIST_URL) will do: [ok, text]
    netCalls,           \* number of urlopen calls made
    writes,             \* write_text calls made: sequence of [text, ok]
    WORDS,              \* module global WORDS (list of str)
    TARGET_WORD,        \* module global TARGET_WORD
    guesses,            \* self.guesses
    results,            \* self.results
    current,            \* self.current
    reveals,            \* self.reveals: <<row, col, style>> (start time left out)
    message,            \* self.message
    play_again_prompt,  \* self.play_again_prompt
    game_over,          \* self.game_over
    timer_armed,        \* a one-shot pg.USEREVENT timer is pending
    arg_guess,          \* argument guess of a direct call of Wordle.score
    arg_target,         \* argument target of a direct call of Wordle.score
    ret_styles          \* value returned by that call

wordVars  == <<file, net, netCalls, writes, WORDS>>
roundVars == <<TARGET_WORD, guesses, results, current, reveals, message,
               play_again_prompt, game_over, timer_armed>>
scoreVars == <<arg_guess, arg_target, ret_styles>>
vars      == <<pc, file, net, netCalls, writes, WORDS, TARGET_WORD, guesses,
               results, current, reveals, message, play_again_prompt,
               game_over, timer_armed, arg_guess, arg_target, ret_styles>>

(***************************************************************************)
(* Program constants                                                       *)
(***************************************************************************)
WORD_LEN  == 5
MAX_TRIES == 6

FALLBACK_WORDS == <<
    <<99,105,103,97,114>>, <<98,108,117,115,104>>,  \* cigar blush
    <<102,111,99,97,108>>, <<101,118,97,100,101>>,  \* focal evade
    <<110,97,118,97,108>>, <<115,101,114,118,101>>,  \* naval serve
    <<104,101,97,116,104>>, <<100,119,97,114,102>>,  \* heath dwarf
    <<109,111,100,101,108>>, <<107,97,114,109,97>>,  \* model karma
    <<115,116,105,110,107>>, <<103,114,97,100,101>>,  \* stink grade
    <<113,117,105,101,116>>, <<98,101,110,99,104>>,  \* quiet bench
    <<102,101,105,103,110>>, <<109,97,106,111,114>>,  \* feign major
    <<100,101,97,116,104>>, <<102,114,101,115,104>>,  \* death fresh
    <<99,114,117,115,116>>, <<115,116,111,111,108>>,  \* crust stool
    <<99,111,108,111,110>>, <<109,97,114,114,121>>,  \* colon marry
    <<114,101,97,99,116>>, <<98,97,116,116,121>>,  \* react batty
    <<112,114,105,100,101>>, <<102,108,111,115,115>>,  \* pride floss
    <<104,101,108,105,120>>, <<99,114,111,97,107>>,  \* helix croak
    <<115,116,97,102,102>>, <<112,97,112,101,114>>,  \* staff paper
    <<117,110,102,101,100>>, <<119,104,101,108,112>>,  \* unfed whelp
    <<116,114,97,119,108>>, <<97,100,111,98,101>>,  \* trawl adobe
    <<99,114,97,122,121>>, <<115,111,119,101,114>>,  \* crazy sower
    <<114,101,112,97,121>>, <<100,105,103,105,116>>,  \* repay digit
    <<99,114,97,116,101>>, <<99,108,117,99,107>>,  \* crate cluck
    <<115,112,105,107,101>>, <<109,105,109,105,99>>,  \* spike mimic
    <<112,111,117,110,100>>, <<109,97,120,105,109>>,  \* pound maxim
    <<108,105,110,101,110>>, <<117,110,109,101,116>>,  \* linen unmet
    <<102,108,101,115,104>>, <<98,111,111,98,121>>,  \* flesh booby
    <<102,111,114,116,104>>, <<102,105,114,115,116>>,  \* forth first
    <<115,116,97,110,100>>, <<98,101,108,108,121>>,  \* stand belly
    <<105,118,111,114,121>>, <<115,101,101,100,121>>,  \* ivory seedy
    <<112,114,105,110,116>>, <<121,101,97,114,110>>,  \* print yearn
    <<100,114,97,105,110>>, <<98,114,105,98,101>>,  \* drain bribe
    <<115,116,111,117,116>>, <<112,97,110,101,108>>,  \* stout panel
    <<99,114,97,115,115>>, <<102,108,117,109,101>>,  \* crass flume
    <<111,102,102,97,108>>, <<97,103,114,101,101>>,  \* offal agree
    <<101,114,114,111,114>>, <<115,119,105,114,108>>,  \* error swirl
    <<97,114,103,117,101>>, <<98,108,101,101,100>>,  \* argue bleed
    <<100,101,108,116,97>>, <<102,108,105,99,107>>,  \* delta flick
    <<116,111,116,101,109>>, <<119,111,111,101,114>>,  \* totem wooer
    <<102,114,111,110,116>>, <<115,104,114,117,98>>,  \* front shrub
    <<112,97,114,114,121>>, <<98,105,111,109,101>>,  \* parry biome
    <<108,97,112,101,108>>, <<115,116,97,114,116>>,  \* lapel start
    <<103,114,101,101,116>>, <<103,111,110,101,114>>,  \* greet goner
    <<103,111,108,101,109>>, <<108,117,115,116,121>>,  \* golem lusty
    <<108,111,111,112,121>>, <<114,111,117,110,100>>,  \* loopy round
    <<97,117,100,105,116>>, <<108,121,105,110,103>>,  \* audit lying
    <<103,97,109,109,97>>, <<108,97,98,111,114>>,  \* gamma labor
    <<105,115,108,101,116>>, <<99,105,118,105,99>>,  \* islet civic
    <<102,111,114,103,101>>, <<99,111,114,110,121>>,  \* forge corny
    <<109,111,117,108,116>>, <<98,97,115,105,99>>,  \* moult basic
    <<115,97,108,97,100>>, <<97,103,97,116,101>>,  \* salad agate
    <<115,112,105,99,121>>, <<115,112,114,97,121>>,  \* spicy spray
    <<101,115,115,97,121>>, <<102,106,111,114,100>>,  \* essay fjord
    <<115,112,101,110,100>>, <<107,101,98,97,98>>,  \* spend kebab
    <<103,117,105,108,100>>, <<97,98,97,99,107>>,  \* guild aback
    <<109,111,116,111,114>>, <<97,108,111,110,101>>,  \* motor alone
    <<104,97,116,99,104>>, <<104,121,112,101,114>>,  \* hatch hyper
    <<116,104,117,109,98>>, <<100,111,119,114,121>>,  \* thumb dowry
    <<118,105,118,105,100>>, <<115,112,105,108,108>>,  \* vivid spill
    <<99,104,97,110,116>>, <<99,104,111,107,101>>,  \* chant choke
    <<98,114,111,111,109>>, <<98,114,105,110,101>>,  \* broom brine
    <<97,108,116,97,114>>, <<114,111,103,117,101>>,  \* altar rogue
    <<108,111,98,98,121>>, <<112,108,117,115,104>>  \* lobby plush
    >>

\* pygame key codes (pygame.locals); K_a..K_z are the lowercase code points.
\* K_i stands for the letter keys the source does not name, K_SPACE for the
\* keys handle_key ignores.
K_BACKSPACE == 8
K_RETURN    == 13
K_ESCAPE    == 27
K_SPACE     == 32
K_a         == 97
K_i         == 105
K_n         == 110
K_y         == 121
K_z         == 122

\* Python's None, as stored in score's pool (no code point is negative)
None == 0 - 1

(***************************************************************************)
(* Bounds of the model                                                     *)
(***************************************************************************)
ScoreLetters == 2     \* score is called on every pair of words over this many letters
MaxFileLines == 2     \* lines in the sampled local file
MaxNetLines  == 2     \* lines in the sampled network payload

(***************************************************************************)
(* str operations, on code-point sequences                                 *)
(***************************************************************************)
NEWLINE == 10

\* str.isalpha() of one character, for the characters that occur in the model:
\* ASCII letters and U+0130 are alphabetic; space, digits, newline and the
\* combining dot U+0307 are not.
IsAlphaChar(c) == (c \in 65..90) \/ (c \in 97..122) \/ c = 304

\* str.isalpha(): FALSE on the empty string
isalpha(w) == Len(w) > 0 /\ \A i \in 1..Len(w) : IsAlphaChar(w[i])

\* str.lower() of one character; U+0130 lowers to the two characters 'i' U+0307
LowerChar(c) == IF c \in 65..90 THEN <<c + 32>>
                ELSE IF c = 304 THEN <<105, 775>>
                ELSE <<c>>

RECURSIVE lower(_)
lower(w) == IF w = <<>> THEN <<>> ELSE LowerChar(Head(w)) \o lower(Tail(w))

\* str.upper() of one character
UpperChar(c) == IF c \in 97..122 THEN c - 32 ELSE c

upper(w) == [i \in 1..Len(w) |-> UpperChar(w[i])]

IsSpace(c) == c \in {9, 10, 11, 12, 13, 32}

RECURSIVE lstrip(_)
lstrip(w) == IF w # <<>> /\ IsSpace(Head(w)) THEN lstrip(Tail(w)) ELSE w

RECURSIVE rstrip(_)
rstrip(w) == IF w # <<>> /\ IsSpace(w[Len(w)]) THEN rstrip(SubSeq(w, 1, Len(w) - 1)) ELSE w

strip(w) == rstrip(lstrip(w))

\* text.split("\n"): the pieces between newlines (always at least one piece)
RECURSIVE SplitNewline(_, _)
SplitNewline(text, piece) ==
    IF text = <<>> THEN <<piece>>
    ELSE IF Head(text) = NEWLINE THEN <<piece>> \o SplitNewline(Tail(text), <<>>)
    ELSE SplitNewline(Tail(text), Append(piece, Head(text)))

\* str.splitlines() for texts whose only line boundary is "\n": a final empty
\* piece is no line ("a\n" has one line, "" has none, "a\n\n" has two)
splitlines(text) ==
    LET ps == SplitNewline(text, <<>>)
    IN  IF ps[Len(ps)] = <<>> THEN SubSeq(ps, 1, Len(ps) - 1) ELSE ps

\* "\n".join(words)
RECURSIVE join(_)
join(words) ==
    IF words = <<>> THEN <<>>
    ELSE IF Len(words) = 1 THEN words[1]
    ELSE LET h == Len(words) \div 2
         IN  join(SubSeq(words, 1, h)) \o <<NEWLINE>> \o join(SubSeq(words, h + 1, Len(words)))

\* Python's str ordering: lexicographic by code point, a proper prefix first
RECURSIVE StrLess(_, _)
StrLess(u, v) ==
    IF v = <<>> THEN FALSE
    ELSE IF u = <<>> THEN TRUE
    ELSE IF Head(u) # Head(v) THEN Head(u) < Head(v)
    ELSE StrLess(Tail(u), Tail(v))

Range(s) == {s[i] : i \in 1..Len(s)}

\* sorted(set(words)): one copy of each word, ascending; a word's place is
\* one more than the number of smaller words
sorted_set(words) ==
    LET S == Range(words)
    IN  [i \in 1..Cardinality(S) |->
            CHOOSE w \in S : Cardinality({v \in S : StrLess(v, w)}) = i - 1]

(***************************************************************************)
(* Wordle.score                                                            *)
(***************************************************************************)
\* list.index: position of the first element equal to g
index(pool, g) == CHOOSE i \in 1..Len(pool) : pool[i] = g /\ \A j \in 1..(i - 1) : pool[j] # g

\* Pass1 with the test "g in pool" in place of "g == target[i]"
RECURSIVE Pass1_InPool(_, _, _, _)
Pass1_InPool(guess, target, i, st) ==
    IF i > Len(guess) THEN st
    ELSE IF guess[i] \in Range(st.pool)
         THEN Pass1_InPool(guess, target, i + 1,
                           [res  |-> [st.res  EXCEPT ![i] = "green"],
                            pool |-> [st.pool EXCEPT ![i] = None]])
         ELSE Pass1_InPool(guess, target, i + 1, st)

\* first loop, from position i on: equal letters become green and leave the pool
RECURSIVE Pass1(_, _, _, _)
Pass1(guess, target, i, st) ==
    IF i > Len(guess) THEN st
    ELSE IF guess[i] = target[i]
         THEN Pass1(guess, target, i + 1,
                    [res  |-> [st.res  EXCEPT ![i] = "green"],
                     pool |-> [st.pool EXCEPT ![i] = None]])
         ELSE Pass1(guess, target, i + 1, st)

\* Pass2 that leaves the pool as it is
RECURSIVE Pass2_NoConsume(_, _, _)
Pass2_NoConsume(guess, i, st) ==
    IF i > Len(guess) THEN st
    ELSE IF st.res[i] = "gray" /\ guess[i] \in Range(st.pool)
         THEN Pass2_NoConsume(guess, i + 1,
                              [res |-> [st.res EXCEPT ![i] = "yellow"], pool |-> st.pool])
         ELSE Pass2_NoConsume(guess, i + 1, st)

\* Pass2 walking the guess from its last position to its first
RECURSIVE Pass2_RightToLeft(_, _, _)
Pass2_RightToLeft(guess, i, st) ==
    IF i > Len(guess) THEN st
    ELSE LET p == Len(guess) + 1 - i
         IN  IF st.res[p] = "gray" /\ guess[p] \in Range(st.pool)
             THEN Pass2_RightToLeft(guess, i + 1,
                      [res  |-> [st.res  EXCEPT ![p] = "yellow"],
                       pool |-> [st.pool EXCEPT ![index(st.pool, guess[p])] = None]])
             ELSE Pass2_RightToLeft(guess, i + 1, st)

\* second loop, from position i on: a gray letter still in the pool becomes
\* yellow and takes the first such pool entry
RECURSIVE Pass2(_, _, _)
Pass2(guess, i, st) ==
    IF i > Len(guess) THEN st
    ELSE IF st.res[i] = "gray" /\ guess[i] \in Range(st.pool)
         THEN Pass2(guess, i + 1,
                    [res  |-> [st.res  EXCEPT ![i] = "yellow"],
                     pool |-> [st.pool EXCEPT ![index(st.pool, guess[i])] = None]])
         ELSE Pass2(guess, i + 1, st)

score(guess, target) ==
    LET st0 == [res |-> [i \in 1..WORD_LEN |-> "gray"], pool |-> target]
    IN  Pass2(guess, 1, Pass1(guess, target, 1, st0)).res

(***************************************************************************)
(* ensure_wordlist                                                         *)
(***************************************************************************)
WellFormed(w) == Len(w) = WORD_LEN /\ isalpha(w)

\* lines 40-41: strip and lower every line of the file, then keep the 5-letter ones
LocalWords(text) ==
    LET ls == splitlines(text)
    IN  SelectSeq([i \in 1..Len(ls) |-> lower(strip(ls[i]))], WellFormed)

\* line 49: keep the 5-letter lines of the payload, then strip and lower them
OnlineWords(text) ==
    LET raw  == splitlines(text)
        kept == SelectSeq(raw, WellFormed)
    IN  [i \in 1..Len(kept) |-> lower(strip(kept[i]))]

\* line 57 after line 54: sorted(set(FALLBACK_WORDS))
FallbackSorted == sorted_set(FALLBACK_WORDS)

\* line 55: "\n".join(FALLBACK_WORDS)
FallbackText == join(FALLBACK_WORDS)

\* the except branch without the inner try: a failed write propagates
FallbackTier_WriteRaises(log, w2) ==
    IF w2
    THEN [pc |-> "loaded", words |-> FallbackSorted, netCalls |-> 1,
          writes |-> Append(log, [text |-> FallbackText, ok |-> w2])]
    ELSE [pc |-> "raised", words |-> <<>>, netCalls |-> 1,
          writes |-> Append(log, [text |-> FallbackText, ok |-> w2])]

\* lines 52-57: the except branch; log holds the write_text calls made so far
FallbackTier(log, w2) ==
    [pc       |-> "loaded",
     words    |-> FallbackSorted,
     netCalls |-> 1,
     writes   |-> Append(log, [text |-> FallbackText, ok |-> w2])]

\* lines 45-57: one urlopen; any exception up to and including the write_text
\* of line 50 enters the except branch
OnlineTier(n, w1, w2) ==
    IF ~n.ok THEN FallbackTier(<<>>, w2)
    ELSE LET words == OnlineWords(n.text)
             log   == <<[text |-> join(words), ok |-> w1]>>
         IN  IF ~w1 THEN FallbackTier(log, w2)
             ELSE [pc |-> "loaded", words |-> sorted_set(words),
                   netCalls |-> 1, writes |-> log]

\* Resolve without the early return of line 43
Resolve_NoEarlyReturn(f, n, w1, w2) ==
    IF f.exists /\ ~f.readable
    THEN [pc |-> "raised", words |-> <<>>, netCalls |-> 0, writes |-> <<>>]
    ELSE OnlineTier(n, w1, w2)

\* lines 38-43: an existing file that cannot be read raises out of the function;
\* a file with at least one 5-letter word is returned as filtered
Resolve(f, n, w1, w2) ==
    IF f.exists /\ ~f.readable
    THEN [pc |-> "raised", words |-> <<>>, netCalls |-> 0, writes |-> <<>>]
    ELSE LET words == IF f.exists THEN LocalWords(f.text) ELSE <<>>
         IN  IF words # <<>>
             THEN [pc |-> "loaded", words |-> words, netCalls |-> 0, writes |-> <<>>]
             ELSE OnlineTier(n, w1, w2)

(***************************************************************************)
(* Sampled inputs                                                          *)
(***************************************************************************)
SampleLines == {
    <<99,105,103,97,114>>,        \* "cigar"
    <<67,73,71,65,82>>,           \* "CIGAR"
    <<98,108,117,115,104,32>>,    \* "blush "
    <<97,98,49,100,101>>,         \* "ab1de"
    <<304,97,98,99,100>> }        \* "İabcd"

SeqsUpTo(S, n) == UNION {[1..k -> S] : k \in 0..n}

Texts(n) == {join(ls) : ls \in SeqsUpTo(SampleLines, n)}

NoFile == [exists |-> FALSE, readable |-> FALSE, text |-> <<>>]
Files  == {NoFile, [exists |-> TRUE, readable |-> FALSE, text |-> <<>>]}
          \cup {[exists |-> TRUE, readable |-> TRUE, text |-> t] : t \in Texts(MaxFileLines)}

NetDown   == [ok |-> FALSE, text |-> <<>>]
Responses == {NetDown} \cup {[ok |-> TRUE, text |-> t] : t \in Texts(MaxNetLines)}

ScoreAlphabet == K_a..(K_a + ScoreLetters - 1)
ScoreWords    == [1..WORD_LEN -> ScoreAlphabet]

(***************************************************************************)
(* Module load: WORDS = ensure_wordlist()                                  *)
(***************************************************************************)
RoundIdle ==
    /\ TARGET_WORD = <<>> /\ guesses = <<>> /\ results = <<>> /\ current = <<>>
    /\ reveals = <<>> /\ message = <<>> /\ play_again_prompt = FALSE
    /\ game_over = FALSE /\ timer_armed = FALSE

ScoreIdle == arg_guess = <<>> /\ arg_target = <<>> /\ ret_styles = <<>>

InitWordlist ==
    /\ pc = "start"
    /\ file \in Files
    /\ net \in Responses
    /\ netCalls = 0 /\ writes = <<>> /\ WORDS = <<>>
    /\ RoundIdle /\ ScoreIdle

ensure_wordlist ==
    /\ pc = "start"
    /\ \E w1, w2 \in BOOLEAN :
         LET r == Resolve(file, net, w1, w2)
         IN  /\ pc' = r.pc
             /\ WORDS' = r.words
             /\ netCalls' = r.netCalls
             /\ writes' = r.writes
    /\ UNCHANGED <<file, net, roundVars, scoreVars>>

NextWordlist == ensure_wordlist

SpecWordlist == InitWordlist /\ [][NextWordlist]_vars

(***************************************************************************)
(* Direct calls of the static method Wordle.score                          *)
(***************************************************************************)
InitScore ==
    /\ pc = "scoring"
    /\ arg_guess \in ScoreWords
    /\ arg_target \in ScoreWords
    /\ ret_styles = <<>>
    /\ file = NoFile /\ net = NetDown /\ netCalls = 0 /\ writes = <<>> /\ WORDS = <<>>
    /\ RoundIdle

score_call ==
    /\ pc = "scoring"
    /\ ret_styles' = score(arg_guess, arg_target)
    /\ pc' = "scored"
    /\ UNCHANGED <<wordVars, roundVars, arg_guess, arg_target>>

NextScore == score_call

SpecScore == InitScore /\ [][NextScore]_vars

(***************************************************************************)
(* The game: class Wordle                                                  *)
(***************************************************************************)
\* message texts
NOT_ENOUGH  == <<78,111,116,32,101,110,111,117,103,104,32,108,101,116,116,101,114,115,33>>  \* "Not enough letters!"
NOT_IN_LIST == <<78,111,116,32,105,110,32,119,111,114,100,32,108,105,115,116,33>>          \* "Not in word list!"
CORRECT     == <<67,111,114,114,101,99,116,33>>                                          \* "Correct!"

\* f" {TARGET_WORD.upper()}"
Reveal(target) == <<32>> \o upper(target)

GREEN  == <<83, 141, 78>>
YELLOW == <<181, 159, 59>>
GRAY   == <<58, 58, 60>>

colour(c) == CASE c = "green" -> GREEN [] c = "yellow" -> YELLOW [] c = "gray" -> GRAY

\* LEGAL_SET = set(WORDS)
LEGAL_SET == Range(WORDS)

\* flash(txt, keep): without keep a one-shot USEREVENT timer is (re)armed
flash(txt, keep) ==
    /\ message' = txt
    /\ timer_armed' = (IF keep THEN timer_armed ELSE TRUE)

end_round(msg) ==
    /\ play_again_prompt' = TRUE
    /\ game_over' = TRUE
    /\ flash(msg, TRUE)

\* new_round without line 117: the message of the finished round stays
new_round_KeepsMessage ==
    /\ TARGET_WORD' \in Range(WORDS)
    /\ guesses' = <<>>
    /\ results' = <<>>
    /\ current' = <<>>
    /\ reveals' = <<>>
    /\ play_again_prompt' = FALSE
    /\ game_over' = FALSE
    /\ UNCHANGED <<message, timer_armed>>

new_round ==
    /\ TARGET_WORD' \in Range(WORDS)
    /\ guesses' = <<>>
    /\ results' = <<>>
    /\ current' = <<>>
    /\ reveals' = <<>>
    /\ message' = <<>>
    /\ play_again_prompt' = FALSE
    /\ game_over' = FALSE
    /\ UNCHANGED timer_armed

\* a rejection that also empties the input row
reject_ClearsInput(txt) ==
    /\ flash(txt, FALSE)
    /\ current' = <<>>
    /\ UNCHANGED <<TARGET_WORD, guesses, results, reveals, play_again_prompt, game_over>>

\* lines 140-145: a rejected submission flashes txt and returns
reject(txt) ==
    /\ flash(txt, FALSE)
    /\ UNCHANGED <<TARGET_WORD, guesses, results, current, reveals,
                   play_again_prompt, game_over>>

\* the two tests of lines 159-162 in the other order
Outcome_TriesFirst(guess, target, tries) ==
    IF tries = MAX_TRIES THEN "loss"
    ELSE IF guess = target THEN "win"
    ELSE "none"

\* the try limit tested one guess late
Outcome_OneLate(guess, target, tries) ==
    IF guess = target THEN "win"
    ELSE IF tries = MAX_TRIES + 1 THEN "loss"
    ELSE "none"

\* lines 159-162: what the round does after its tries-th guess was recorded
Outcome(guess, target, tries) ==
    IF guess = target THEN "win"
    ELSE IF tries = MAX_TRIES THEN "loss"
    ELSE "none"

\* submit_guess with results.insert(0, styles) in place of results.append(styles)
submit_guess_InsertsFirst ==
    LET guess == lower(current)
    IN  IF Len(guess) # WORD_LEN THEN reject(NOT_ENOUGH)
        ELSE IF guess \notin LEGAL_SET THEN reject(NOT_IN_LIST)
        ELSE LET styles == score(guess, TARGET_WORD)
                 row    == Len(guesses)
                 out    == Outcome(guess, TARGET_WORD, Len(guesses) + 1)
             IN  /\ reveals' = reveals \o [i \in 1..Len(styles) |-> <<row, i - 1, colour(styles[i])>>]
                 /\ guesses' = Append(guesses, guess)
                 /\ results' = <<styles>> \o results
                 /\ current' = <<>>
                 /\ UNCHANGED TARGET_WORD
                 /\ CASE out = "win"  -> end_round(CORRECT)
                      [] out = "loss" -> end_round(Reveal(TARGET_WORD))
                      [] out = "none" -> UNCHANGED <<message, play_again_prompt,
                                                     game_over, timer_armed>>

submit_guess ==
    LET guess == lower(current)
    IN  IF Len(guess) # WORD_LEN THEN reject(NOT_ENOUGH)
        ELSE IF guess \notin LEGAL_SET THEN reject(NOT_IN_LIST)
        ELSE LET styles == score(guess, TARGET_WORD)
                 row    == Len(guesses)
                 out    == Outcome(guess, TARGET_WORD, Len(guesses) + 1)
             IN  /\ reveals' = reveals \o [i \in 1..Len(styles) |-> <<row, i - 1, colour(styles[i])>>]
                 /\ guesses' = Append(guesses, guess)
                 /\ results' = Append(results, styles)
                 /\ current' = <<>>
                 /\ UNCHANGED TARGET_WORD
                 /\ CASE out = "win"  -> end_round(CORRECT)
                      [] out = "loss" -> end_round(Reveal(TARGET_WORD))
                      [] out = "none" -> UNCHANGED <<message, play_again_prompt,
                                                     game_over, timer_armed>>

\* Wordle.quit: pg.quit(); sys.exit()
quit == pc' = "quit" /\ UNCHANGED roundVars

\* handle_key with the return of line 128 inside the two branches: any other
\* key pressed while the round is over goes on to the typing code
handle_key_NoReturn(key, uni) ==
    /\ pc = "running"
    /\ IF game_over /\ key \in {K_y, K_RETURN} THEN new_round /\ UNCHANGED pc
       ELSE IF game_over /\ key \in {K_n, K_ESCAPE} THEN quit
       ELSE /\ UNCHANGED pc
            /\ IF key = K_RETURN THEN submit_guess
               ELSE IF key = K_BACKSPACE
                    THEN /\ current' = SubSeq(current, 1, Len(current) - 1)
                         /\ UNCHANGED <<TARGET_WORD, guesses, results, reveals, message,
                                        play_again_prompt, game_over, timer_armed>>
               ELSE IF K_a <= key /\ key <= K_z /\ Len(current) < WORD_LEN
                    THEN /\ current' = current \o lower(uni)
                         /\ UNCHANGED <<TARGET_WORD, guesses, results, reveals, message,
                                        play_again_prompt, game_over, timer_armed>>
               ELSE UNCHANGED roundVars
    /\ UNCHANGED <<wordVars, scoreVars>>

\* one KEYDOWN event dispatched by run()
handle_key(key, uni) ==
    /\ pc = "running"
    /\ IF game_over
       THEN IF key \in {K_y, K_RETURN} THEN new_round /\ UNCHANGED pc
            ELSE IF key \in {K_n, K_ESCAPE} THEN quit
            ELSE UNCHANGED <<pc, roundVars>>
       ELSE /\ UNCHANGED pc
            /\ IF key = K_RETURN THEN submit_guess
               ELSE IF key = K_BACKSPACE
                    THEN /\ current' = SubSeq(current, 1, Len(current) - 1)
                         /\ UNCHANGED <<TARGET_WORD, guesses, results, reveals, message,
                                        play_again_prompt, game_over, timer_armed>>
               ELSE IF K_a <= key /\ key <= K_z /\ Len(current) < WORD_LEN
                    THEN /\ current' = current \o lower(uni)
                         /\ UNCHANGED <<TARGET_WORD, guesses, results, reveals, message,
                                        play_again_prompt, game_over, timer_armed>>
               ELSE UNCHANGED roundVars
    /\ UNCHANGED <<wordVars, scoreVars>>

\* the USEREVENT of the one-shot timer, dispatched by run(): clear flash
on_userevent ==
    /\ pc = "running"
    /\ timer_armed
    /\ message' = <<>>
    /\ timer_armed' = FALSE
    /\ UNCHANGED <<pc, wordVars, scoreVars, TARGET_WORD, guesses, results, current,
                   reveals, play_again_prompt, game_over>>

\* the pg.QUIT event, dispatched by run()
on_quit ==
    /\ pc = "running"
    /\ quit
    /\ UNCHANGED <<wordVars, scoreVars>>

(***************************************************************************)
(* Sampled keyboard and start-up file of the game                          *)
(***************************************************************************)
LetterKeys == {K_i, K_n, K_y}
Keys       == LetterKeys \cup {K_RETURN, K_BACKSPACE, K_ESCAPE, K_SPACE}

\* event.unicode of a key: the letter, the shifted letter, or nothing (a
\* modifier held); on a Turkish layout shift+i types U+0130
Unis(key) ==
    IF key \in LetterKeys
    THEN {<<key>>, <<key - 32>>, <<>>} \cup (IF key = K_i THEN {<<304>>} ELSE {})
    ELSE {<<>>}

GameFile == [exists |-> TRUE, readable |-> TRUE,
             text |-> join(<< <<105,121,105,121,105>>,      \* "iyiyi"
                               <<121,105,105,121,121>> >>)]  \* "yiiyy"

\* the state after module load and Wordle.__init__
Init ==
    /\ pc = "running"
    /\ file = GameFile
    /\ net = NetDown
    /\ LET r == Resolve(GameFile, NetDown, TRUE, TRUE)
       IN  WORDS = r.words /\ netCalls = r.netCalls /\ writes = r.writes
    /\ TARGET_WORD \in Range(WORDS)
    /\ guesses = <<>> /\ results = <<>> /\ current = <<>> /\ reveals = <<>>
    /\ message = <<>> /\ play_again_prompt = FALSE /\ game_over = FALSE
    /\ timer_armed = FALSE
    /\ ScoreIdle

Next ==
    \/ \E key \in Keys : \E uni \in Unis(key) : handle_key(key, uni)
    \/ on_userevent
    \/ on_quit

Spec == Init /\ [][Next]_vars

(***************************************************************************)
(* Properties of ensure_wordlist (SpecWordlist)                            *)
(***************************************************************************)
NoDuplicates(s) == \A i, j \in 1..Len(s) : i # j => s[i] # s[j]

\* the normal form of a line: stripped and lowered
Normal(l) == lower(strip(l))

\* the local file is absent, or is read and has no line whose normal form is a
\* 5-letter word
FileYieldsNothing ==
    \/ ~file.exists
    \/ /\ file.readable
       /\ \A l \in Range(splitlines(file.text)) : ~WellFormed(Normal(l))

\* C4: whatever the local file and the network do, the vocabulary that
\* ensure_wordlist returns is non-empty and all its members are 5 alphabetic
\* characters.
C4_VocabularyWellFormed ==
    pc = "loaded" => (WORDS # <<>> /\ \A w \in Range(WORDS) : WellFormed(w))

\* C5: when the file yields nothing, the fetch succeeds and persisting the
\* fetched list fails, the fetched list (filtered, deduplicated, sorted) is
\* returned all the same.
C5_PersistFailureIgnored ==
    (pc # "start" /\ FileYieldsNothing /\ net.ok /\ writes # <<>> /\ ~writes[1].ok)
        => (pc = "loaded" /\ WORDS = sorted_set(OnlineWords(net.text)))

\* C6: when the file yields nothing and the network call fails, the returned
\* vocabulary is the embedded fallback list as a set, is non-empty, and one
\* network call was made, whether or not the fallback could be written.
C6_FallbackOnNetworkFailure ==
    (pc # "start" /\ FileYieldsNothing /\ ~net.ok)
        => /\ pc = "loaded"
           /\ Range(WORDS) = Range(FALLBACK_WORDS)
           /\ WORDS # <<>>
           /\ netCalls = 1

C6_Witness ==
    /\ pc = "loaded" /\ file.exists /\ FileYieldsNothing /\ ~net.ok
    /\ Len(writes) = 1 /\ ~writes[1].ok
    /\ Range(WORDS) = Range(FALLBACK_WORDS)

\* C7: the returned vocabulary has no word twice, on every path.
C7_NoDuplicateWords == pc = "loaded" => NoDuplicates(WORDS)

\* C8: when the local file has at least one line whose normal form is a
\* 5-letter word, the normal forms of those lines are returned, no network call
\* is made and nothing is written.
C8_LocalFileWins ==
    LET ls   == IF file.exists /\ file.readable THEN splitlines(file.text) ELSE <<>>
        good == {i \in 1..Len(ls) : WellFormed(Normal(ls[i]))}
    IN  (pc # "start" /\ good # {})
            => /\ pc = "loaded"
               /\ Len(WORDS) = Cardinality(good)
               /\ Range(WORDS) = {Normal(ls[i]) : i \in good}
               /\ netCalls = 0
               /\ writes = <<>>

C8_Witness ==
    /\ pc = "loaded" /\ file.exists /\ file.readable /\ net.ok
    /\ \E l \in Range(splitlines(file.text)) : WellFormed(Normal(l))
    /\ \E l \in Range(splitlines(file.text)) : ~WellFormed(Normal(l))
    /\ netCalls = 0 /\ writes = <<>> /\ WORDS # <<>>

(***************************************************************************)
(* Properties of Wordle.score (SpecScore)                                  *)
(***************************************************************************)
Count(w, c) == Cardinality({i \in 1..Len(w) : w[i] = c})

Min(a, b) == IF a <= b THEN a ELSE b

\* positions of guess holding c that were classified exact or present
Matched(guess, styles, c) ==
    Cardinality({i \in 1..Len(guess) : guess[i] = c /\ styles[i] \in {"green", "yellow"}})

\* C9: score classifies every position exact exactly when guess equals target.
C9_AllExactIffEqual ==
    pc = "scored"
        => ((\A i \in 1..WORD_LEN : ret_styles[i] = "green") <=> (arg_guess = arg_target))

C9_Witness ==
    /\ pc = "scored" /\ arg_guess = arg_target
    /\ \A i \in 1..WORD_LEN : ret_styles[i] = "green"

\* C10: for every letter c, the positions of guess that hold c and are
\* classified exact or present number min(count of c in guess, count of c in
\* target).
C10_NeverOverMatched ==
    pc = "scored"
        => \A c \in ScoreAlphabet :
               Matched(arg_guess, ret_styles, c)
                   = Min(Count(arg_guess, c), Count(arg_target, c))

C10_Witness ==
    /\ pc = "scored"
    /\ \E c \in ScoreAlphabet :
          /\ Count(arg_target, c) > 0
          /\ Count(arg_guess, c) > Count(arg_target, c)
          /\ Matched(arg_guess, ret_styles, c) = Count(arg_target, c)
          /\ \E i \in 1..WORD_LEN : arg_guess[i] = c /\ ret_styles[i] = "yellow"

(***************************************************************************)
(* Properties of the round (Spec)                                          *)
(***************************************************************************)
\* this step records one more guess
Accepted == Len(guesses') = Len(guesses) + 1

\* this step ends the round
RoundEnds == ~game_over /\ game_over'

\* C1: a step ends the round as a win ("Correct!") exactly when it records a
\* guess equal to the target, and as a loss (the target revealed) exactly when
\* it records the 6th guess and none of the 6 guesses equals the target; the
\* round ends in no other way.
C1_RoundTermination ==
    [][ /\ (RoundEnds /\ message' = CORRECT)
            <=> (Accepted /\ guesses'[Len(guesses')] = TARGET_WORD)
        /\ (RoundEnds /\ message' = Reveal(TARGET_WORD))
            <=> (Accepted /\ Len(guesses') = MAX_TRIES
                          /\ \A k \in 1..MAX_TRIES : guesses'[k] # TARGET_WORD)
        /\ RoundEnds => message' \in {CORRECT, Reveal(TARGET_WORD)}
      ]_vars

C1_Witness ==
    /\ game_over /\ message = CORRECT
    /\ Len(guesses) = MAX_TRIES /\ guesses[MAX_TRIES] = TARGET_WORD
    /\ \A k \in 1..(MAX_TRIES - 1) : guesses[k] # TARGET_WORD

\* C2: at most 6 guesses are recorded, and the round is not over while fewer
\* than 6 are recorded and none of them is the target.
C2_TriesBounded ==
    /\ Len(guesses) <= MAX_TRIES
    /\ (Len(guesses) < MAX_TRIES /\ TARGET_WORD \notin Range(guesses)) => ~game_over

C2_Witness ==
    /\ Len(guesses) = MAX_TRIES /\ TARGET_WORD \notin Range(guesses) /\ game_over

\* C3: Return pressed while the round is on, with an input row that is not 5
\* characters long or not a legal word, changes none of guesses, results,
\* current, the target and game_over; it sets the message.
C3_RejectedSubmission ==
    [][ ( /\ pc = "running" /\ ~game_over
          /\ \E uni \in Unis(K_RETURN) : handle_key(K_RETURN, uni)
          /\ (Len(current) # WORD_LEN \/ current \notin LEGAL_SET) )
        => /\ UNCHANGED <<guesses, results, current, TARGET_WORD, game_over>>
           /\ message' = (IF Len(current) # WORD_LEN THEN NOT_ENOUGH ELSE NOT_IN_LIST)
      ]_vars

C3_Witness ==
    /\ pc = "running" /\ ~game_over /\ timer_armed
    /\ message = NOT_IN_LIST
    /\ Len(current) = WORD_LEN /\ current \notin LEGAL_SET
    /\ guesses # <<>>

\* the state new_round leaves: a target of the vocabulary and nothing else
FreshRound ==
    /\ TARGET_WORD \in Range(WORDS)
    /\ guesses = <<>> /\ results = <<>> /\ current = <<>>
    /\ message = <<>>
    /\ ~game_over /\ ~play_again_prompt

\* C11: while the round is over, a key event either starts a new round (Y or
\* Return), quits (N or Escape) or changes nothing; no step changes guesses,
\* results or current except by starting a new round.
C11_RoundOverTerminal ==
    [][ /\ \A key \in Keys : \A uni \in Unis(key) :
              (game_over /\ handle_key(key, uni))
                  => IF key \in {K_y, K_RETURN}
                     THEN pc' = "running" /\ ~game_over' /\ guesses' = <<>>
                     ELSE IF key \in {K_n, K_ESCAPE}
                     THEN pc' = "quit" /\ UNCHANGED roundVars
                     ELSE UNCHANGED vars
        /\ game_over
              => \/ UNCHANGED <<guesses, results, current, reveals, TARGET_WORD, game_over>>
                 \/ ~game_over' /\ guesses' = <<>> /\ results' = <<>> /\ current' = <<>>
      ]_vars

C11_Witness ==
    /\ pc = "quit" /\ game_over /\ play_again_prompt
    /\ Len(guesses) = MAX_TRIES /\ current = <<>>

\* C12: the step that leaves RoundOver leaves a fresh round: the target is a
\* word of the vocabulary, guesses, results, current and message are empty,
\* game_over and play_again_prompt are false.
C12_PlayAgainFreshRound ==
    [][ (game_over /\ ~game_over') => FreshRound' ]_vars

\* a second round: only new_round leaves an empty message with the timer armed
C12_Witness ==
    /\ pc = "running" /\ FreshRound
    /\ timer_armed /\ reveals = <<>>

\* C13: a position is exact exactly when guess and target agree there, and
\* among the positions that hold the same letter and are not exact, none
\* classified absent comes before one classified present.
C13_PresentLeftToRight ==
    pc = "scored"
        => /\ \A i \in 1..WORD_LEN :
                  (ret_styles[i] = "green") <=> (arg_guess[i] = arg_target[i])
           /\ \A i, j \in 1..WORD_LEN :
                  (i < j /\ arg_guess[i] = arg_guess[j])
                      => ~(ret_styles[i] = "gray" /\ ret_styles[j] = "yellow")

C13_Witness ==
    /\ pc = "scored"
    /\ \E i, j \in 1..WORD_LEN :
          /\ i < j /\ arg_guess[i] = arg_guess[j]
          /\ ret_styles[i] = "yellow" /\ ret_styles[j] = "gray"

\* s with one element added at its end
Extends(s, s2) == Len(s2) = Len(s) + 1 /\ SubSeq(s2, 1, Len(s)) = s

\* C14: guesses and results have the same length and results[k] is
\* score(guesses[k], target) for every k; a step that changes the records
\* either appends one guess and its result, leaving the earlier ones and the
\* target as they are, or starts a new round; the target changes only when a
\* new round starts.
C14_RecordsAccumulate ==
    /\ [](/\ Len(guesses) = Len(results)
          /\ \A k \in 1..Len(guesses) : results[k] = score(guesses[k], TARGET_WORD))
    /\ [][ /\ (guesses' # guesses \/ results' # results)
               => \/ /\ Extends(guesses, guesses') /\ Extends(results, results')
                     /\ TARGET_WORD' = TARGET_WORD
                  \/ /\ game_over /\ ~game_over'
                     /\ guesses' = <<>> /\ results' = <<>>
           /\ TARGET_WORD' # TARGET_WORD
               => (game_over /\ ~game_over' /\ guesses' = <<>>)
         ]_vars

\* a lost round: six records, of a word that shares letters with the target
C14_Witness ==
    /\ Len(guesses) = MAX_TRIES /\ Len(results) = MAX_TRIES
    /\ TARGET_WORD \notin Range(guesses)
    /\ \A k \in 1..MAX_TRIES : results[k] = score(guesses[k], TARGET_WORD)
    /\ \E i \in 1..WORD_LEN : results[MAX_TRIES][i] = "yellow"

\* C15: while the round stays over, the end-of-round message ("Correct!" or
\* the revealed target) stays as end_round set it.
C15_EndMessageKept ==
    [][ (game_over /\ game_over' /\ message \in {CORRECT, Reveal(TARGET_WORD)})
            => message' = message ]_vars

\* C16: current holds at most 5 characters, and every recorded guess has 5
\* characters and is a legal word.
C16_InputAndGuessesWellFormed ==
    /\ Len(current) <= WORD_LEN
    /\ \A k \in 1..Len(guesses) : Len(guesses[k]) = WORD_LEN /\ guesses[k] \in LEGAL_SET

====
